---- MODULE Spec2Model ----
(***************************************************************************)
(* The message claim / lease / recovery lifecycle of the bot gateway:      *)
(* messageController (getPending, create, updateByMessageId),              *)
(* canceledUserController.create, the auto-expiry service and the          *)
(* requeue-processing job, over one shared document store.  Every awaited  *)
(* store operation of a handler is one atomic step; handlers interleave    *)
(* between their awaits.                                                   *)
(***************************************************************************)
EXTENDS Integers, Sequences, FiniteSets, TLC

(* ------------------------------ bounds --------------------------------- *)

\* message ids are 1..MaxMsgs
MaxMsgs == 2

\* the clock runs over 0..MaxTime (minutes)
MaxTime == 4

(* --------------------------- configuration ----------------------------- *)

\* config.autoExpiry.expiryMinutes (EXPIRY_MINUTES; the model runs with 2)
ExpiryMinutes == 2

\* config.processingRecovery.timeoutMinutes (MESSAGE_REQUEUE_AFTER_MINUTES;
\* the model runs with 2)
TimeoutMinutes == 2

\* config.messageSpam.windowMinutes (MESSAGE_SPAM_WINDOW_MINUTES; the model
\* runs with 2)
SpamWindowMinutes == 2

\* config.autoExpiry.enabled: `process.env.AUTO_EXPIRY_ENABLED !== 'false' || true`
ConfigAutoExpiryEnabled == TRUE

\* the cap of getPending: Math.min(parseInt(limit), 100) (the model runs
\* with 2)
HardCap == 2

(* ------------------------------ domains -------------------------------- *)

MsgIds == 1..MaxMsgs
Callers == {"w1", "w2"}
SenderIds == {1, 2}
Usernames == {"a", "b"}
PlayerIds == {1, 2}

\* a string field, and a user id, that the request does not carry
None == "none"
NoUserId == 0

VARIABLES
    now,            \* Date.now(), in minutes
    messages,       \* the Message collection: stored id -> document
    canceledUsers,  \* the CanceledUser collection: set of [user_id, username]
    players,        \* the Player collection: id -> [sender, username, active, createdAt]
    claim,          \* per caller: the getPending handler in flight
    ingest,         \* per caller: the messageController.create handler in flight
    upd,            \* the response of the last updateByMessageId request
    cancel,         \* the canceledUserController.create handler in flight
    expiry,         \* the auto-expiry service: its run in flight and its interval timer
    requeue,        \* the requeue job: its cron task, the sweep it owes, sweeps in flight
    listing         \* the playerController.create handler in flight

vars ==
    <<now, messages, canceledUsers, players, claim, ingest, upd, cancel, expiry, requeue,
      listing>>

(* --------------------------- store primitives -------------------------- *)

\* The schema's timestamps: every write stamps updatedAt.
Stamp(doc, t) == [doc EXCEPT !.updatedAt = t]

Min(a, b) == IF a < b THEN a ELSE b

\* the selection without its order
AnyLimit(coll, ids, n) ==
    {s \in [1..Min(n, Cardinality(ids)) -> ids] :
        \A a, b \in DOMAIN s : a < b => s[a] # s[b]}

\* find(...).sort({message_date: 1}).limit(n): the sequences the store may
\* return; the order among equal message_date is the store's choice.
SortedLimit(coll, ids, n) ==
    LET k == Min(n, Cardinality(ids)) IN
    {s \in [1..k -> ids] :
        /\ \A a, b \in 1..k : a < b =>
              /\ s[a] # s[b]
              /\ coll[s[a]].message_date <= coll[s[b]].message_date
        /\ \A i \in ids : (\A a \in 1..k : s[a] # i) =>
              \A a \in 1..k : coll[s[a]].message_date <= coll[i].message_date}

Range(s) == {s[a] : a \in DOMAIN s}

(* ------------------------------ documents ------------------------------ *)

\* A Message document as create stores it.
NewMessage(status, date, t, sender, username, group, content) ==
    [status |-> status, reason |-> "", message_date |-> date, updatedAt |-> t,
     sender |-> sender, username |-> username, group |-> group, content |-> content]

\* the minute of the last error a service logged, when it has logged none
NoError == -1

ClaimIdle ==
    [pc |-> "idle", maxLimit |-> [nan |-> FALSE, n |-> 0], found |-> <<>>, result |-> <<>>]
NoBody ==
    [sender |-> 0, username |-> None, group |-> 0, content |-> "", date |-> 0,
     ai_status |-> None]
IngestIdle == [pc |-> "idle", body |-> NoBody, status |-> None, response |-> 0]
UpdIdle == [response |-> 0]
CancelIdle == [pc |-> "idle", user_id |-> NoUserId, username |-> None, response |-> 0]
ListingIdle == [pc |-> "idle", sender |-> NoUserId, username |-> None, response |-> 0]
\* the auto-expiry service as createAutoExpiryService leaves it: intervalId
\* null (timer), isRunning false, enabled = config.autoExpiry.enabled; timers
\* counts the interval timers that were set and not cleared
ExpiryIdle ==
    [pc |-> "idle", expiryTime |-> 0, batch |-> <<>>, staleAtStart |-> {},
     timer |-> FALSE, isRunning |-> FALSE, enabled |-> ConfigAutoExpiryEnabled,
     due |-> FALSE, errorAt |-> NoError, timers |-> 0]
\* the requeue job before it is started: task null; tasks counts the cron
\* tasks that were scheduled and not stopped
RequeueOff ==
    [task |-> FALSE, due |-> FALSE, swept |-> FALSE, inFlight |-> <<>>, errorAt |-> NoError,
     tasks |-> 0]

(* ------------------------- the limit query value ----------------------- *)

\* the characters of the limit query strings the model sends
QueryChars == {"-", "0", "1", "2", "3", "x"}

\* the value of a decimal digit, -1 for any other character
DigitValue(ch) ==
    CASE ch = "0" -> 0 [] ch = "1" -> 1 [] ch = "2" -> 2 [] ch = "3" -> 3
      [] ch = "4" -> 4 [] ch = "5" -> 5 [] ch = "6" -> 6 [] ch = "7" -> 7
      [] ch = "8" -> 8 [] ch = "9" -> 9 [] OTHER -> -1

\* a JavaScript number as far as getPending meets it: an integer or NaN
Num(n) == [nan |-> FALSE, n |-> n]
NaN == [nan |-> TRUE, n |-> 0]

\* the value of the digits of s from position k up to the first non-digit
RECURSIVE ParseDigits(_, _, _)
ParseDigits(s, k, acc) ==
    IF k > Len(s) \/ DigitValue(s[k]) < 0 THEN acc
    ELSE ParseDigits(s, k + 1, acc * 10 + DigitValue(s[k]))

\* parseInt of a string: an optional sign, then the leading digits; NaN when
\* no digit follows
ParseInt(s) ==
    LET neg == Len(s) > 0 /\ s[1] = "-"
        start == IF neg THEN 2 ELSE 1
    IN IF start > Len(s) \/ DigitValue(s[start]) < 0 THEN NaN
       ELSE Num((IF neg THEN -1 ELSE 1) * ParseDigits(s, start, 0))

\* Math.min(a, b): NaN when either argument is NaN
MathMin(a, b) ==
    IF a.nan \/ b.nan THEN NaN ELSE IF a.n < b.n THEN a ELSE b

\* const { limit = 50 } = req.query
DefaultLimit == 50

\* req.query: the limit parameter may be absent
NoLimit == [has |-> FALSE, limit |-> <<>>]
Query(s) == [has |-> TRUE, limit |-> s]

\* the query that carries the one-digit limit n
QueryOf(n) == Query(<<CHOOSE ch \in QueryChars : DigitValue(ch) = n>>)

\* the limit queries of the model: absent, or a string of up to two characters
Queries ==
    {NoLimit} \cup {Query(<<>>)} \cup {Query(<<a>>) : a \in QueryChars}
        \cup {Query(<<a, b>>) : a \in QueryChars, b \in QueryChars}

\* cursor.limit(n) that never limits
CursorUnlimited(n, avail) == avail

\* cursor.limit(n) over avail matching documents: 0 is no limit, a negative n
\* asks for one batch of -n documents
CursorLimit(n, avail) ==
    IF n = 0 THEN avail ELSE IF n < 0 THEN Min(-n, avail) ELSE Min(n, avail)

(* ------------------- messageController.getPending ---------------------- *)

\* const { limit = 50 } = req.query;
\* const maxLimit = Math.min(parseInt(limit), 100)
MaxLimit(query) ==
    MathMin(IF query.has THEN ParseInt(query.limit) ELSE Num(DefaultLimit), Num(HardCap))

\* new Date(Date.now() - config.autoExpiry.expiryMinutes * 60 * 1000)
ExpiryTime(t) == t - ExpiryMinutes

\* the cutoff of the selection: the epoch when auto-expiry is disabled
ClaimCutoff(t) == IF ConfigAutoExpiryEnabled THEN ExpiryTime(t) ELSE 0

\* the filter of the selection
ClaimCandidate(doc, cutoff) ==
    doc.status = "pending" /\ doc.message_date >= cutoff

\* the filter of the marking write: the selected ids, whatever their state
MarkFilter(doc, i, found) == i \in Range(found)

\* the filter of the expiring updateMany of getPending
InlineExpireFilter(doc, expiryTime) ==
    doc.status = "pending" /\ doc.message_date < expiryTime

\* The request arrives; with auto-expiry on, the handler first expires the
\* old pending messages (updateMany, status only).
GetPendingExpire(c, query) ==
    /\ claim[c].pc \in {"idle", "done"}
    /\ messages' =
          IF ConfigAutoExpiryEnabled
          THEN [i \in DOMAIN messages |->
                  IF InlineExpireFilter(messages[i], ExpiryTime(now))
                  THEN Stamp([messages[i] EXCEPT !.status = "expired"], now)
                  ELSE messages[i]]
          ELSE messages
    /\ claim' = [claim EXCEPT ![c] =
          [pc |-> "find", maxLimit |-> MaxLimit(query), found |-> <<>>, result |-> <<>>]]
    /\ UNCHANGED <<now, canceledUsers, players, ingest, upd, cancel, expiry, requeue, listing>>

\* the documents find({ai_status: 'pending', message_date >= expiryTime})
\* matches
ClaimCandidates(t) ==
    {i \in DOMAIN messages : ClaimCandidate(messages[i], ClaimCutoff(t))}

\* find(...) oldest first, limited; with nothing found the handler answers the
\* empty list.  A NaN limit is not a limit the store defines: the query
\* either fails (the handler ends without a write) or runs unlimited.
GetPendingFind(c) ==
    /\ claim[c].pc = "find"
    /\ \E s \in SortedLimit(messages, ClaimCandidates(now),
                  IF claim[c].maxLimit.nan
                  THEN Cardinality(ClaimCandidates(now))
                  ELSE CursorLimit(claim[c].maxLimit.n, Cardinality(ClaimCandidates(now)))) :
       \E fails \in {FALSE, claim[c].maxLimit.nan} :
          claim' = [claim EXCEPT ![c] =
              [@ EXCEPT !.pc = IF Len(s) > 0 /\ ~fails THEN "mark" ELSE "done",
                        !.found = IF fails THEN <<>> ELSE s, !.result = <<>>]]
    /\ UNCHANGED <<now, messages, canceledUsers, players, ingest, upd, cancel, expiry, requeue, listing>>

\* updateMany({_id: {$in: messageIds}}, {$set: {ai_status: 'processing'}}),
\* then the selected documents are returned as processing.
GetPendingMark(c) ==
    /\ claim[c].pc = "mark"
    /\ messages' = [i \in DOMAIN messages |->
          IF MarkFilter(messages[i], i, claim[c].found)
          THEN Stamp([messages[i] EXCEPT !.status = "processing"], now)
          ELSE messages[i]]
    /\ claim' = [claim EXCEPT ![c] = [@ EXCEPT !.pc = "done", !.result = claim[c].found]]
    /\ UNCHANGED <<now, canceledUsers, players, ingest, upd, cancel, expiry, requeue, listing>>

(* -------------------------------- clock -------------------------------- *)

\* The requeue job's cron interval: Math.max(1, Math.min(59, intervalMinutes))
\* (MESSAGE_REQUEUE_INTERVAL_MINUTES; the model runs with 1)
RequeueIntervalMinutes == 1

\* The period of the auto-expiry timer: config.autoExpiry.intervalMinutes
\* (EXPIRY_INTERVAL_MINUTES, default 1)
ExpiryIntervalMinutes == 1

\* cron.schedule(`*/${everyMin} * * * *`, runOnce): the scheduled task calls
\* runOnce at every minute that is a multiple of the interval
CronFires(task, t) == task /\ (t % RequeueIntervalMinutes = 0)

\* setInterval(callback, interval * 60 * 1000): the timer, while set, calls
\* back every interval
IntervalFires(timer, t) == timer /\ (t % ExpiryIntervalMinutes = 0)

\* A minute passes.  The callbacks the timers fired are called before the
\* next minute.
Tick ==
    /\ now < MaxTime
    /\ ~requeue.due
    /\ ~expiry.due
    /\ now' = now + 1
    /\ requeue' = [requeue EXCEPT !.due = CronFires(requeue.task, now + 1)]
    /\ expiry' = [expiry EXCEPT !.due = IntervalFires(expiry.timer, now + 1)]
    /\ UNCHANGED <<messages, canceledUsers, players, claim, ingest, upd, cancel, listing>>

(* ---------------- messageController.updateByMessageId ------------------ *)

\* the ai_status values a worker's outcome report carries
Outcomes == {"completed", "failed"}

\* the ai_status values the schema of Message accepts
AiStatuses ==
    {"pending", "processing", "completed", "failed", "expired", "canceled_by_user"}

\* the message_id route parameter that names message n (one digit)
IdParam(n) == <<CHOOSE ch \in QueryChars : DigitValue(ch) = n>>

\* the route parameters of the model: the empty string, one character, or one
\* character followed by a letter
Params ==
    {<<>>} \cup {<<a>> : a \in QueryChars} \cup {<<a, "x">> : a \in QueryChars}

\* validateMessageId(message_id): a non-empty string of decimal digits
ValidateMessageId(s) == Len(s) > 0 /\ \A k \in DOMAIN s : DigitValue(s[k]) >= 0

\* runValidators: true: the update passes when its ai_status is a value of
\* the schema's enum
RunValidators(status) == status \in AiStatuses

\* Message.findOneAndUpdate({message_id}, req.body): the filter is the id alone
UpdateFilter(doc, i, id) == i = id

\* PUT /messages/:message_id with body {ai_status: status}: 400 on an invalid
\* id, an error when the validators reject the body, 404 when no such message
\* is stored, else the body is written and the document returned.
UpdateByMessageId(message_id, status) ==
    /\ messages' = [i \in DOMAIN messages |->
          IF /\ ValidateMessageId(message_id)
             /\ RunValidators(status)
             /\ UpdateFilter(messages[i], i, ParseInt(message_id).n)
          THEN Stamp([messages[i] EXCEPT !.status = status], now)
          ELSE messages[i]]
    /\ upd' = [response |->
          IF ~ValidateMessageId(message_id) THEN 400
          ELSE IF ~RunValidators(status) THEN 500
          ELSE IF ParseInt(message_id).n \in DOMAIN messages THEN 200 ELSE 404]
    /\ UNCHANGED <<now, canceledUsers, players, claim, ingest, cancel, expiry, requeue, listing>>

(* ---------------------- services/requeueProcessing --------------------- *)

\* the cutoff with the timeout taken for hours (a unit slip)
RequeueCutoffHours(t) == t - TimeoutMinutes * 60

\* new Date(Date.now() - timeoutMinutes * 60 * 1000)
RequeueCutoff(t) == t - TimeoutMinutes

\* the filter of the sweep without its status condition
RequeueFilterAnyStatus(doc, cutoff) == doc.updatedAt < cutoff

\* the filter of the sweep without its lease condition
RequeueFilterNoLease(doc, cutoff) == doc.status = "processing"

\* { ai_status: 'processing', updatedAt: { $lt: cutoff } }
RequeueFilter(doc, cutoff) == doc.status = "processing" /\ doc.updatedAt < cutoff

\* { $set: { ai_status: 'pending', reason: 'requeued_from_processing_timeout' } }
RequeueUpdate(doc, t) ==
    Stamp([doc EXCEPT !.status = "pending",
                      !.reason = "requeued_from_processing_timeout"], t)

\* a start that never returns early
JobStartReturnsNever(job) == FALSE

\* if (!enabled) return (enabled is true); if (task) return
JobStartReturns(job) == job.task

\* startRequeueProcessingJob: schedules the cron task once and kicks off a
\* first sweep (config.processingRecovery.enabled is true).
StartRequeueProcessingJob ==
    /\ requeue' =
          IF JobStartReturns(requeue)
          THEN requeue
          ELSE [requeue EXCEPT !.task = TRUE, !.due = TRUE, !.tasks = @ + 1]
    /\ UNCHANGED <<now, messages, canceledUsers, players, claim, ingest, upd, cancel, expiry, listing>>

\* stopRequeueProcessingJob: the cron task, when there is one, is stopped and
\* dropped; a call of runOnce the task has fired is made first
StopRequeueProcessingJob ==
    /\ ~requeue.due
    /\ requeue' =
          IF requeue.task
          THEN [requeue EXCEPT !.task = FALSE, !.tasks = @ - 1]
          ELSE requeue
    /\ UNCHANGED <<now, messages, canceledUsers, players, claim, ingest, upd, cancel, expiry, listing>>

\* runOnce: one updateMany over the timed-out processing messages.
RunOnce ==
    /\ requeue.due
    /\ messages' = [i \in DOMAIN messages |->
          IF RequeueFilter(messages[i], RequeueCutoff(now))
          THEN RequeueUpdate(messages[i], now)
          ELSE messages[i]]
    /\ requeue' = [requeue EXCEPT !.due = FALSE, !.swept = TRUE]
    /\ UNCHANGED <<now, canceledUsers, players, claim, ingest, upd, cancel, expiry, listing>>

\* a .catch that stops the cron task
RequeueCatchStops(job, t) == [job EXCEPT !.task = FALSE, !.errorAt = t]

\* .catch((err) => log.error(...)): the error is logged, the job is as it was
RequeueCatch(job, t) == [job EXCEPT !.errorAt = t]

\* runOnce is called (by the cron task or by the start of the job): the
\* cutoff is computed and the updateMany is sent; its promise is pending.
RunOnceCall ==
    /\ requeue.due
    /\ requeue' = [requeue EXCEPT !.due = FALSE,
                                  !.inFlight = Append(@, RequeueCutoff(now))]
    /\ UNCHANGED <<now, messages, canceledUsers, players, claim, ingest, upd, cancel, expiry, listing>>

\* The updateMany of a pending runOnce is answered: the store applied it, or
\* it failed and .catch logged the error.  The cron task stays scheduled.
RunOnceSettle(k, ok) ==
    /\ k \in DOMAIN requeue.inFlight
    /\ messages' = [i \in DOMAIN messages |->
          IF ok /\ RequeueFilter(messages[i], requeue.inFlight[k])
          THEN RequeueUpdate(messages[i], now)
          ELSE messages[i]]
    /\ LET settled == [requeue EXCEPT
               !.swept = @ \/ ok,
               !.inFlight = [a \in 1..(Len(@) - 1) |-> IF a < k THEN @[a] ELSE @[a + 1]]]
       IN requeue' = IF ok THEN settled ELSE RequeueCatch(settled, now)
    /\ UNCHANGED <<now, canceledUsers, players, claim, ingest, upd, cancel, expiry, listing>>

(* -------------------------- services/autoExpiry ------------------------ *)

\* const batchSize = 1000 (the model runs with 2)
BatchSize == 2

\* reason.includes(...) answering false for every reason
IncludesRequeueNever(reason) == FALSE

\* prevReason.includes('requeue')
IncludesRequeue(reason) == reason = "requeued_from_processing_timeout"

\* determineExpireReason(message)
DetermineExpireReason(doc) ==
    IF doc.status = "processing" THEN "expired_processing_timeout"
    ELSE IF doc.status = "pending"
         THEN IF doc.reason # "" /\ IncludesRequeue(doc.reason)
              THEN "expired_after_pending"
              ELSE "expired_pending_timeout"
         ELSE "expired_timeout"

\* the filter of the sweep without the claimed messages
ExpiryFilterPendingOnly(doc, expiryTime) ==
    doc.status = "pending" /\ doc.message_date < expiryTime

\* { ai_status: {$in: ['pending', 'processing']}, message_date: {$lt: expiryTime} }
ExpiryFilter(doc, expiryTime) ==
    doc.status \in {"pending", "processing"} /\ doc.message_date < expiryTime

\* the updateOne made conditional on the status that was read
ExpiryWriteFilterSameStatus(doc, i, snap) == i = snap.id /\ doc.status = snap.status

\* an updateOne whose filter matches no document
ExpiryWriteFilterNone(doc, i, snap) == FALSE

\* the filter of one updateOne of the bulk write: the document id alone
ExpiryWriteFilter(doc, i, snap) == i = snap.id

\* a message in flight older than the cutoff (used for the history field
\* staleAtStart only)
StaleInFlight(doc, cutoff) ==
    (doc.status = "pending" \/ doc.status = "processing") /\ doc.message_date < cutoff

\* expireOldMessages is entered: it returns at once when the service is
\* disabled, else the cutoff is fixed.  staleAtStart remembers the messages in
\* flight and stale at this moment.
ExpiryStart ==
    /\ expiry.pc \in {"idle", "done"}
    /\ expiry' =
          IF expiry.enabled
          THEN [expiry EXCEPT
                  !.pc = "find", !.expiryTime = ExpiryTime(now), !.batch = <<>>,
                  !.due = FALSE,
                  !.staleAtStart =
                      {i \in DOMAIN messages :
                          StaleInFlight(messages[i], now - ExpiryMinutes)}]
          ELSE [expiry EXCEPT !.due = FALSE]
    /\ UNCHANGED <<now, messages, canceledUsers, players, claim, ingest, upd, cancel, requeue, listing>>

\* one batch is read: _id, ai_status, reason of up to batchSize matches
ExpiryFind ==
    /\ expiry.pc = "find"
    /\ \E s \in SortedLimit(messages,
                  {i \in DOMAIN messages : ExpiryFilter(messages[i], expiry.expiryTime)},
                  BatchSize) :
          expiry' = [expiry EXCEPT
              !.pc = IF Len(s) = 0 THEN "done" ELSE "write",
              !.batch = [a \in 1..Len(s) |->
                  [id |-> s[a], status |-> messages[s[a]].status,
                   reason |-> messages[s[a]].reason]]]
    /\ UNCHANGED <<now, messages, canceledUsers, players, claim, ingest, upd, cancel, requeue, listing>>

\* the store after the updateOne operations ops of the batch were applied
ExpiryApplied(ops) ==
    [i \in DOMAIN messages |->
        IF \E a \in ops : ExpiryWriteFilter(messages[i], i, expiry.batch[a])
        THEN LET snap == expiry.batch[CHOOSE a \in ops :
                              ExpiryWriteFilter(messages[i], i, expiry.batch[a])]
             IN Stamp([messages[i] EXCEPT !.status = "expired",
                          !.reason = DetermineExpireReason(snap)], now)
        ELSE messages[i]]

\* bulkWrite of one updateOne per read document; a short batch ends the loop
ExpiryWrite ==
    /\ expiry.pc = "write"
    /\ messages' = ExpiryApplied(DOMAIN expiry.batch)
    /\ expiry' = [expiry EXCEPT
          !.pc = IF Len(expiry.batch) < BatchSize THEN "done" ELSE "find",
          !.batch = <<>>]
    /\ UNCHANGED <<now, canceledUsers, players, claim, ingest, upd, cancel, requeue, listing>>

\* catch (error) { logError(...) }: the error is logged, the service is as it
\* was and the run is over
ExpiryCatch(svc, t) == [svc EXCEPT !.pc = "done", !.batch = <<>>, !.errorAt = t]

\* An awaited store operation of the run rejects: the find, or the unordered
\* bulkWrite after any part of its operations was applied.
ExpiryFail ==
    /\ expiry.pc \in {"find", "write"}
    /\ \E ops \in SUBSET DOMAIN expiry.batch :
          /\ ops # DOMAIN expiry.batch \/ expiry.batch = <<>>
          /\ messages' = ExpiryApplied(ops)
    /\ expiry' = ExpiryCatch(expiry, now)
    /\ UNCHANGED <<now, canceledUsers, players, claim, ingest, upd, cancel, requeue, listing>>

\* start() returning only when the service is disabled
StartReturnsWhenDisabled(svc) == ~svc.enabled

\* if (!enabled) return; if (isRunning) return;
StartReturns(svc) == ~svc.enabled \/ svc.isRunning

\* autoExpiryService.start(): no-op when disabled or already running; else
\* the interval timer is set and a first run is called at once.
AutoExpiryStart ==
    /\ expiry' =
          IF StartReturns(expiry)
          THEN expiry
          ELSE [expiry EXCEPT !.timer = TRUE, !.isRunning = TRUE, !.due = TRUE,
                              !.timers = @ + 1]
    /\ UNCHANGED <<now, messages, canceledUsers, players, claim, ingest, upd, cancel, requeue, listing>>

\* stop() as setEnabled calls it: the interval is cleared when one is set
Stopped(svc) ==
    IF svc.timer
    THEN [svc EXCEPT !.timer = FALSE, !.isRunning = FALSE, !.timers = @ - 1]
    ELSE svc

\* autoExpiryService.stop(); a callback the timer has fired is called first
AutoExpiryStop ==
    /\ ~expiry.due
    /\ expiry' = Stopped(expiry)
    /\ UNCHANGED <<now, messages, canceledUsers, players, claim, ingest, upd, cancel, requeue, listing>>

\* autoExpiryService.setEnabled(value): disabling a running service stops it
SetEnabled(value) ==
    /\ ~expiry.due
    /\ expiry' =
          IF ~value /\ expiry.isRunning
          THEN Stopped([expiry EXCEPT !.enabled = value])
          ELSE [expiry EXCEPT !.enabled = value]
    /\ UNCHANGED <<now, messages, canceledUsers, players, claim, ingest, upd, cancel, requeue, listing>>

(* --------------------- messageController.create ------------------------ *)

\* the request bodies of create: sender id, group id and content are set; the
\* bodies differ from the first one in the sender, the group or the content
Bodies(t) ==
    {[sender |-> k[1], username |-> IF k[1] = 1 THEN "a" ELSE "b", group |-> k[2],
      content |-> k[3], date |-> t, ai_status |-> None] :
        k \in {<<1, 1, "x">>, <<2, 1, "x">>, <<1, 2, "x">>, <<1, 1, "y">>}}

\* the same bodies, with or without an ai_status field of their own
StatusBodies(t) ==
    {[b EXCEPT !.ai_status = st] : b \in Bodies(t), st \in AiStatuses \cup {None}}

\* const messageData = { ...req.body }: the ai_status of the document is the
\* one the body carries, else the default of the schema
MessageStatus(body) == IF body.ai_status = None THEN "pending" ELSE body.ai_status

\* Math.max(config.messageSpam?.windowMinutes ?? 60, 0)
SpamWindow == IF SpamWindowMinutes > 0 THEN SpamWindowMinutes ELSE 0

\* the spam filter without its group condition
SpamFilterAnyGroup(doc, body, t) ==
    /\ doc.sender = body.sender
    /\ doc.content = body.content
    /\ doc.message_date >= t - SpamWindow

\* the filter of the spam findOne
SpamFilter(doc, body, t) ==
    /\ doc.sender = body.sender
    /\ doc.group = body.group
    /\ doc.content = body.content
    /\ doc.message_date >= t - SpamWindow

\* the spam validation finding nothing
ExistingMessageNever(body, t) == FALSE

\* existingMessage: whether the findOne of the spam validation finds a document
ExistingMessage(body, t) ==
    SpamWindow > 0 /\ \E i \in DOMAIN messages : SpamFilter(messages[i], body, t)

\* the cancellation lookup by user_id alone
CanceledUserByIdOnly(body) ==
    \E r \in canceledUsers : body.sender # NoUserId /\ r.user_id = body.sender

\* CanceledUser.findOne({$or: cancellationQuery}): user_id and username enter
\* the query when the body carries them
CanceledUserOf(body) ==
    \E r \in canceledUsers :
        \/ body.sender # NoUserId /\ r.user_id = body.sender
        \/ body.username # None /\ r.username = body.username

\* handlers that have passed the spam validation and not saved yet
Saving == {c \in Callers : ingest[c].pc \in {"cancel", "save"}}

\* The request arrives and the spam validation runs: 409 on a duplicate.
CreateSpamCheck(c, body) ==
    /\ ingest[c].pc \in {"idle", "done"}
    /\ Cardinality(DOMAIN messages) + Cardinality(Saving) < MaxMsgs
    /\ ingest' = [ingest EXCEPT ![c] =
          IF ExistingMessage(body, now)
          THEN [pc |-> "done", body |-> body, status |-> None, response |-> 409]
          ELSE [pc |-> "cancel", body |-> body, status |-> MessageStatus(body),
                response |-> 0]]
    /\ UNCHANGED <<now, messages, canceledUsers, players, claim, upd, cancel, expiry, requeue, listing>>

\* The cancellation lookup: a canceled sender overrides the status.
CreateCancelCheck(c) ==
    /\ ingest[c].pc = "cancel"
    /\ ingest' = [ingest EXCEPT ![c] =
          [@ EXCEPT !.pc = "save",
                    !.status = IF CanceledUserOf(ingest[c].body)
                               THEN "canceled_by_user" ELSE ingest[c].status]]
    /\ UNCHANGED <<now, messages, canceledUsers, players, claim, upd, cancel, expiry, requeue, listing>>

\* newMessage.save(): the document is inserted under the next message id.
CreateSave(c) ==
    /\ ingest[c].pc = "save"
    /\ LET id == CHOOSE i \in MsgIds :
                    i \notin DOMAIN messages /\ \A j \in 1..(i - 1) : j \in DOMAIN messages
           b == ingest[c].body
       IN messages' = [i \in DOMAIN messages \cup {id} |->
              IF i = id
              THEN NewMessage(ingest[c].status, b.date, now, b.sender, b.username,
                              b.group, b.content)
              ELSE messages[i]]
    /\ ingest' = [ingest EXCEPT ![c] = [@ EXCEPT !.pc = "done", !.response = 201]]
    /\ UNCHANGED <<now, canceledUsers, players, claim, upd, cancel, expiry, requeue, listing>>

(* ----------------------- playerController.create ----------------------- *)

\* config.playerSpam.timeoutHours (the model runs with 2 minutes)
PlayerSpamMinutes == 2

\* Player.findOne({'sender.id': sender.id, createdAt: {$gte: threeHoursAgo}})
RecentPlayer(sender, t) ==
    \E p \in DOMAIN players :
        players[p].sender = sender /\ players[p].createdAt >= t - PlayerSpamMinutes

\* The request arrives: 429 when the sender created a listing recently.
PlayerSpamCheck(sender, username) ==
    /\ listing.pc \in {"idle", "done"}
    /\ DOMAIN players # PlayerIds
    /\ listing' =
          IF sender # NoUserId /\ RecentPlayer(sender, now)
          THEN [pc |-> "done", sender |-> sender, username |-> username, response |-> 429]
          ELSE [pc |-> "cancel", sender |-> sender, username |-> username, response |-> 0]
    /\ UNCHANGED <<now, messages, canceledUsers, players, claim, ingest, upd, cancel, expiry, requeue>>

\* CanceledUser.findOne({$or: cancellationQuery}): 409 for a canceled sender
PlayerCancelCheck ==
    /\ listing.pc = "cancel"
    /\ listing' =
          IF CanceledUserOf(listing)
          THEN [listing EXCEPT !.pc = "done", !.response = 409]
          ELSE [listing EXCEPT !.pc = IF listing.sender # NoUserId
                                      THEN "deactivate" ELSE "save"]
    /\ UNCHANGED <<now, messages, canceledUsers, players, claim, ingest, upd, cancel, expiry, requeue>>

\* Player.updateMany({'sender.id': sender.id, active: true}, {$set: {active: false}})
PlayerDeactivate ==
    /\ listing.pc = "deactivate"
    /\ players' = [p \in DOMAIN players |->
          IF players[p].sender = listing.sender /\ players[p].active
          THEN [players[p] EXCEPT !.active = FALSE]
          ELSE players[p]]
    /\ listing' = [listing EXCEPT !.pc = "save"]
    /\ UNCHANGED <<now, messages, canceledUsers, claim, ingest, upd, cancel, expiry, requeue>>

\* player.active = true; player.save(), then 201
PlayerSave ==
    /\ listing.pc = "save"
    /\ LET id == CHOOSE p \in PlayerIds :
                    p \notin DOMAIN players /\ \A q \in 1..(p - 1) : q \in DOMAIN players
       IN players' = [p \in DOMAIN players \cup {id} |->
              IF p = id
              THEN [sender |-> listing.sender, username |-> listing.username,
                    active |-> TRUE, createdAt |-> now]
              ELSE players[p]]
    /\ listing' = [listing EXCEPT !.pc = "done", !.response = 201]
    /\ UNCHANGED <<now, messages, canceledUsers, claim, ingest, upd, cancel, expiry, requeue>>

(* ------------------- canceledUserController.create --------------------- *)

\* the lookup of an existing cancellation left out
ExistingCanceledNever(user_id) == FALSE

\* CanceledUser.findOne({ user_id })
ExistingCanceled(user_id) == \E r \in canceledUsers : r.user_id = user_id

\* the sender conditions of the cascade with the user id alone
UserConditionIdOnly(doc, user_id, username) ==
    user_id # NoUserId /\ doc.sender = user_id

\* the sender conditions of the cascade: $or of sender.id and sender.username
UserCondition(doc, user_id, username) ==
    \/ user_id # NoUserId /\ doc.sender = user_id
    \/ username # None /\ doc.username = username

\* messageStatusFilter with its $or
CancelMessageFilter(doc, user_id, username) ==
    /\ doc.status \in {"pending", "pending_prefilter"}
    /\ UserCondition(doc, user_id, username)

\* The request arrives: 400 without user_id, 409 when already canceled.
CancelCheck(user_id, username) ==
    /\ cancel.pc \in {"idle", "done"}
    /\ cancel' =
          IF user_id = NoUserId
          THEN [pc |-> "done", user_id |-> user_id, username |-> username, response |-> 400]
          ELSE IF ExistingCanceled(user_id)
          THEN [pc |-> "done", user_id |-> user_id, username |-> username, response |-> 409]
          ELSE [pc |-> "save", user_id |-> user_id, username |-> username, response |-> 0]
    /\ UNCHANGED <<now, messages, canceledUsers, players, claim, ingest, upd, expiry, requeue, listing>>

\* user.save()
CancelSave ==
    /\ cancel.pc = "save"
    /\ canceledUsers' = canceledUsers \cup
          {[user_id |-> cancel.user_id, username |-> cancel.username]}
    /\ cancel' = [cancel EXCEPT !.pc = "messages"]
    /\ UNCHANGED <<now, messages, players, claim, ingest, upd, expiry, requeue, listing>>

\* Message.updateMany(messageStatusFilter, {$set: {ai_status: 'canceled_by_user'}})
CancelMessages ==
    /\ cancel.pc = "messages"
    /\ messages' = [i \in DOMAIN messages |->
          IF CancelMessageFilter(messages[i], cancel.user_id, cancel.username)
          THEN Stamp([messages[i] EXCEPT !.status = "canceled_by_user"], now)
          ELSE messages[i]]
    /\ cancel' = [cancel EXCEPT !.pc = "players"]
    /\ UNCHANGED <<now, canceledUsers, players, claim, ingest, upd, expiry, requeue, listing>>

\* Player.updateMany({$or: playerUserConditions}, {$set: {active: false}}), then 201
CancelPlayers ==
    /\ cancel.pc = "players"
    /\ players' = [p \in DOMAIN players |->
          IF UserCondition(players[p], cancel.user_id, cancel.username)
          THEN [players[p] EXCEPT !.active = FALSE]
          ELSE players[p]]
    /\ cancel' = [cancel EXCEPT !.pc = "done", !.response = 201]
    /\ UNCHANGED <<now, messages, canceledUsers, claim, ingest, upd, expiry, requeue, listing>>

\* An awaited cascade update rejects, or the process dies before it: the
\* handler ends with the cancellation recorded and the remaining updates not
\* run.
CancelFail ==
    /\ cancel.pc \in {"messages", "players"}
    /\ cancel' = [cancel EXCEPT !.pc = "done", !.response = 500]
    /\ UNCHANGED <<now, messages, canceledUsers, players, claim, ingest, upd, expiry, requeue, listing>>

(* --------------------- concurrent Claim callers ------------------------ *)

\* the payload of the i-th stored message of a prepared store
SenderOf(i) == ((i - 1) % 2) + 1
UsernameOf(i) == IF SenderOf(i) = 1 THEN "a" ELSE "b"
ContentOf(i) == IF i <= 2 THEN "x" ELSE "y"

\* A store of pending messages ingested at minutes 0 and 1, nothing in flight.
InitClaim ==
    /\ now = 1
    /\ \E date \in [MsgIds -> 0..1] :
          messages = [i \in MsgIds |->
              NewMessage("pending", date[i], date[i], SenderOf(i), UsernameOf(i),
                         1, ContentOf(i))]
    /\ canceledUsers = {}
    /\ players = [p \in {} |-> 0]
    /\ claim = [c \in Callers |-> ClaimIdle]
    /\ ingest = [c \in Callers |-> IngestIdle]
    /\ upd = UpdIdle
    /\ cancel = CancelIdle
    /\ expiry = ExpiryIdle
    /\ requeue = RequeueOff
    /\ listing = ListingIdle

NextClaim ==
    \/ \E c \in Callers, limit \in 1..MaxMsgs : GetPendingExpire(c, QueryOf(limit))
    \/ \E c \in Callers : GetPendingFind(c)
    \/ \E c \in Callers : GetPendingMark(c)
    \/ Tick

SpecClaim == InitClaim /\ [][NextClaim]_vars

(* ------------------------- the queue lifecycle ------------------------- *)

\* The process has booted: the requeue job is scheduled and owes its first
\* sweep; the store holds messages ingested just now; no request is in flight.
Init ==
    /\ now = 0
    /\ messages = [i \in MsgIds |->
          NewMessage("pending", 0, 0, SenderOf(i), UsernameOf(i), 1, ContentOf(i))]
    /\ canceledUsers = {}
    /\ players = [p \in {} |-> 0]
    /\ claim = [c \in Callers |-> ClaimIdle]
    /\ ingest = [c \in Callers |-> IngestIdle]
    /\ upd = UpdIdle
    /\ cancel = CancelIdle
    /\ expiry = ExpiryIdle
    /\ requeue = [RequeueOff EXCEPT !.task = TRUE, !.due = TRUE, !.tasks = 1]
    /\ listing = ListingIdle

Next ==
    \/ \E limit \in 1..MaxMsgs : GetPendingExpire("w1", QueryOf(limit))
    \/ GetPendingFind("w1")
    \/ GetPendingMark("w1")
    \/ \E id \in MsgIds, st \in Outcomes : UpdateByMessageId(IdParam(id), st)
    \/ ExpiryStart
    \/ ExpiryFind
    \/ ExpiryWrite
    \/ RunOnce
    \/ Tick

Spec == Init /\ [][Next]_vars

(* ---------------------- the requeue job and Claim ---------------------- *)

NextRequeue ==
    \/ \E limit \in 1..MaxMsgs : GetPendingExpire("w1", QueryOf(limit))
    \/ GetPendingFind("w1")
    \/ GetPendingMark("w1")
    \/ \E id \in MsgIds : UpdateByMessageId(IdParam(id), "completed")
    \/ RunOnce
    \/ Tick

SpecRequeue == Init /\ [][NextRequeue]_vars

(* ----------------- the expiry sweep beside the requeue job ------------- *)

\* The process has booted on a store of pending and claimed messages.
InitExpiry ==
    /\ now = 0
    /\ \E st \in [MsgIds -> {"pending", "processing"}], date \in [MsgIds -> 0..1] :
          messages = [i \in MsgIds |->
              NewMessage(st[i], date[i], date[i], SenderOf(i), UsernameOf(i),
                         1, ContentOf(i))]
    /\ canceledUsers = {}
    /\ players = [p \in {} |-> 0]
    /\ claim = [c \in Callers |-> ClaimIdle]
    /\ ingest = [c \in Callers |-> IngestIdle]
    /\ upd = UpdIdle
    /\ cancel = CancelIdle
    /\ expiry = ExpiryIdle
    /\ requeue = [RequeueOff EXCEPT !.task = TRUE, !.due = TRUE, !.tasks = 1]
    /\ listing = ListingIdle

NextExpiry ==
    \/ ExpiryStart
    \/ ExpiryFind
    \/ ExpiryWrite
    \/ RunOnce
    \/ Tick

SpecExpiry == InitExpiry /\ [][NextExpiry]_vars

(* ------------------------ the cancellation cascade --------------------- *)

\* A store of messages in flight and done, and the listings of two senders.
InitCancel ==
    /\ now = 0
    /\ \E st \in [MsgIds -> {"pending", "processing", "completed"}],
          name \in [MsgIds -> Usernames] :
          messages = [i \in MsgIds |->
              NewMessage(st[i], 0, 0, SenderOf(i), name[i], 1, ContentOf(i))]
    /\ canceledUsers = {}
    /\ \E name \in Usernames, act \in [PlayerIds -> BOOLEAN] :
          players = [p \in PlayerIds |->
              [sender |-> p, username |-> IF p = 1 THEN "a" ELSE name, active |-> act[p],
               createdAt |-> 0]]
    /\ claim = [c \in Callers |-> ClaimIdle]
    /\ ingest = [c \in Callers |-> IngestIdle]
    /\ upd = UpdIdle
    /\ cancel = CancelIdle
    /\ expiry = ExpiryIdle
    /\ requeue = RequeueOff
    /\ listing = ListingIdle

NextCancel ==
    \/ \E u \in SenderIds \cup {NoUserId}, n \in Usernames \cup {None} : CancelCheck(u, n)
    \/ CancelSave
    \/ CancelMessages
    \/ CancelPlayers

SpecCancel == InitCancel /\ [][NextCancel]_vars

(* ------------------- cancellation with failing updates ----------------- *)

NextCancelFail ==
    \/ \E u \in SenderIds \cup {NoUserId}, n \in Usernames \cup {None} : CancelCheck(u, n)
    \/ CancelSave
    \/ CancelMessages
    \/ CancelPlayers
    \/ CancelFail

SpecCancelFail == InitCancel /\ [][NextCancelFail]_vars

(* -------------------------------- ingestion ---------------------------- *)

InitIngest ==
    /\ now = 0
    /\ messages = [i \in {} |-> 0]
    /\ canceledUsers = {}
    /\ players = [p \in {} |-> 0]
    /\ claim = [c \in Callers |-> ClaimIdle]
    /\ ingest = [c \in Callers |-> IngestIdle]
    /\ upd = UpdIdle
    /\ cancel = CancelIdle
    /\ expiry = ExpiryIdle
    /\ requeue = RequeueOff
    /\ listing = ListingIdle

NextIngest ==
    \/ \E c \in Callers, b \in Bodies(now) : CreateSpamCheck(c, b)
    \/ \E c \in Callers : CreateCancelCheck(c)
    \/ \E c \in Callers : CreateSave(c)
    \/ Tick

SpecIngest == InitIngest /\ [][NextIngest]_vars

(* ------------------- claims about concurrent Claim calls --------------- *)

\* the messages a finished getPending call returned
Returned(c) == IF claim[c].pc = "done" THEN Range(claim[c].result) ELSE {}

\* C1: no double-claim: no message id is in the result of more than one of
\* the concurrent getPending calls, in any interleaving of their select and
\* update steps.
C1_NoDoubleClaim ==
    \A c1, c2 \in Callers : c1 # c2 => Returned(c1) \cap Returned(c2) = {}

\* C2: the marking write of getPending moves a selected message to processing
\* only if it is pending at the moment of the write; a message changed since
\* the selection keeps its newer status.
C2_ClaimOnlyPending ==
    [][\A c \in Callers : GetPendingMark(c) =>
          \A i \in Range(claim[c].found) :
             messages[i].status # "pending" =>
                messages'[i].status = messages[i].status]_vars

(* ------------------- claims about the status state machine ------------- *)

\* the transition table of the status state machine
TransitionTable ==
    {<<"pending", "processing">>, <<"pending", "expired">>,
     <<"pending", "canceled_by_user">>, <<"processing", "completed">>,
     <<"processing", "failed">>, <<"processing", "pending">>,
     <<"processing", "expired">>, <<"processing", "canceled_by_user">>}

TerminalStatuses == {"completed", "failed", "expired", "canceled_by_user"}

\* C3: every status change any operation makes is a transition of the table.
C3_OnlyTableTransitions ==
    [][\A i \in DOMAIN messages :
          messages'[i].status # messages[i].status =>
             <<messages[i].status, messages'[i].status>> \in TransitionTable]_vars

\* C4: terminal states are stable: a completed, failed, expired or canceled
\* message never changes its status again.
C4_TerminalStable ==
    [][\A i \in DOMAIN messages :
          messages[i].status \in TerminalStatuses =>
             messages'[i].status = messages[i].status]_vars

\* C5: late-outcome rejection: an outcome report for a message that is not in
\* processing leaves its status unchanged.
C5_LateOutcomeRejected ==
    [][\A id \in MsgIds, st \in Outcomes :
          (UpdateByMessageId(IdParam(id), st) /\ id \in DOMAIN messages
              /\ messages[id].status # "processing") =>
             messages'[id].status = messages[id].status]_vars

(* ------------------------ claims about the sweeps ---------------------- *)

\* a message whose lease has timed out at minute t
LeaseTimedOut(doc, t) ==
    doc.status = "processing" /\ doc.updatedAt < t - TimeoutMinutes

\* C6: no permanent stranding: a Requeuer sweep leaves every message whose
\* lease had timed out in pending, and once the job has swept, no message is
\* in processing with a lease clock older than the lease timeout plus one
\* sweep interval.
C6_NoStranding ==
    /\ [][RunOnce =>
            \A i \in DOMAIN messages :
               LeaseTimedOut(messages[i], now) => messages'[i].status = "pending"]_vars
    /\ [](requeue.swept =>
            \A i \in DOMAIN messages :
               messages[i].status = "processing" =>
                  now - messages[i].updatedAt <= TimeoutMinutes + RequeueIntervalMinutes)

\* a sweep has returned a timed-out message to pending
C6_Witness ==
    \E i \in DOMAIN messages :
        /\ messages[i].status = "pending"
        /\ messages[i].reason = "requeued_from_processing_timeout"

\* C7: expiry monotonicity: every message that was pending or processing and
\* older than the cutoff when an Expiry sweep started is expired when that
\* sweep has finished, whatever the Requeuer did in between.
C7_ExpiryMonotone ==
    expiry.pc = "done" =>
        \A i \in expiry.staleAtStart : messages[i].status = "expired"

\* a sweep has finished and expired a message the Requeuer had returned to
\* pending
C7_Witness ==
    /\ expiry.pc = "done"
    /\ \E i \in expiry.staleAtStart :
          /\ messages[i].status = "expired"
          /\ messages[i].reason = "expired_after_pending"

(* ------------------ claims about the cancellation cascade -------------- *)

\* the sender of the document is the canceled user, by id or by username
SenderIs(doc, user_id, username) ==
    doc.sender = user_id \/ (username # None /\ doc.username = username)

\* C8: the cascade leaves every pending or processing message of the canceled
\* user (matched by id or by username) in canceled_by_user.
C8_CascadeCancelsInFlight ==
    [][CancelMessages =>
          \A i \in DOMAIN messages :
             (SenderIs(messages[i], cancel.user_id, cancel.username)
                /\ messages[i].status \in {"pending", "processing"}) =>
                messages'[i].status = "canceled_by_user"]_vars

\* C9: cascade idempotence: a Cancel for a user whose cancellation is already
\* recorded ends at once and leaves every message, listing and cancellation
\* record as the first call left it.
C9_CascadeIdempotent ==
    [][\A u \in SenderIds, n \in Usernames \cup {None} :
          (CancelCheck(u, n) /\ \E r \in canceledUsers : r.user_id = u) =>
             /\ cancel'.pc = "done"
             /\ UNCHANGED <<messages, players, canceledUsers>>]_vars

\* a repeated Cancel has been answered after a first one ran its cascade
C9_Witness ==
    /\ cancel.pc = "done"
    /\ cancel.response = 409
    /\ \E i \in DOMAIN messages : messages[i].status = "canceled_by_user"

(* ------------------------ claims about ingestion ----------------------- *)

\* a stored message of the same sender and group with the same content whose
\* message_date lies within the trailing spam window
DuplicateStored(body, t) ==
    \E i \in DOMAIN messages :
        /\ messages[i].sender = body.sender
        /\ messages[i].group = body.group
        /\ messages[i].content = body.content
        /\ messages[i].message_date >= t - SpamWindowMinutes

\* C10: create answers 409 and stores nothing exactly when such a duplicate
\* is stored; otherwise it goes on and its save stores the message.
C10_DuplicateGuard ==
    [][/\ \A c \in Callers, b \in Bodies(now) :
             CreateSpamCheck(c, b) =>
                /\ messages' = messages
                /\ (ingest'[c].response = 409) <=> DuplicateStored(b, now)
                /\ (ingest'[c].pc = "cancel") <=> ~DuplicateStored(b, now)
       /\ \A c \in Callers :
             CreateSave(c) =>
                /\ ingest[c].response # 409
                /\ \E id \in MsgIds \ DOMAIN messages :
                      /\ DOMAIN messages' = DOMAIN messages \cup {id}
                      /\ messages'[id].sender = ingest[c].body.sender
                      /\ messages'[id].group = ingest[c].body.group
                      /\ messages'[id].content = ingest[c].body.content
                /\ \A i \in DOMAIN messages : messages'[i] = messages[i]]_vars

\* a duplicate was rejected, and the same tuple was accepted again once the
\* window had passed
C10_Witness ==
    /\ \E c \in Callers : ingest[c].pc = "done" /\ ingest[c].response = 409
    /\ \E i, j \in DOMAIN messages :
          /\ i # j
          /\ messages[i].sender = messages[j].sender
          /\ messages[i].group = messages[j].group
          /\ messages[i].content = messages[j].content
          /\ messages[j].message_date - messages[i].message_date > SpamWindowMinutes

(* ------------------- ingestion for canceled senders -------------------- *)

\* One cancellation record is stored before any message arrives; one client
\* ingests while a worker polls.
InitIngestCanceled ==
    /\ now = 0
    /\ messages = [i \in {} |-> 0]
    /\ \E u \in SenderIds, n \in Usernames \cup {None} :
          canceledUsers = {[user_id |-> u, username |-> n]}
    /\ players = [p \in {} |-> 0]
    /\ claim = [c \in Callers |-> ClaimIdle]
    /\ ingest = [c \in Callers |-> IngestIdle]
    /\ upd = UpdIdle
    /\ cancel = CancelIdle
    /\ expiry = ExpiryIdle
    /\ requeue = RequeueOff
    /\ listing = ListingIdle

NextIngestCanceled ==
    \/ \E b \in Bodies(now) : CreateSpamCheck("w1", b)
    \/ CreateCancelCheck("w1")
    \/ CreateSave("w1")
    \/ GetPendingExpire("w2", QueryOf(MaxMsgs))
    \/ GetPendingFind("w2")
    \/ GetPendingMark("w2")

SpecIngestCanceled == InitIngestCanceled /\ [][NextIngestCanceled]_vars

\* a cancellation record names the sender of the document, by id or by username
SenderCanceled(doc) ==
    \E r \in canceledUsers : r.user_id = doc.sender \/ r.username = doc.username

\* C11: with the cancellation record stored before the ingestion, every
\* stored message of a sender the record names by id or by username has
\* status canceled_by_user, and no getPending call has selected it.
C11_CanceledSenderNeverPending ==
    \A i \in DOMAIN messages :
        SenderCanceled(messages[i]) =>
            /\ messages[i].status = "canceled_by_user"
            /\ \A c \in Callers : i \notin Range(claim[c].found)

\* a message matched by username alone was stored as canceled, and a later
\* getPending call has finished
C11_Witness ==
    /\ claim["w2"].pc = "done"
    /\ \E i \in DOMAIN messages :
          /\ messages[i].status = "canceled_by_user"
          /\ \A r \in canceledUsers : r.user_id # messages[i].sender
          /\ \E r \in canceledUsers : r.username = messages[i].username

(* ---------------------- one Claim caller and its limit ----------------- *)

\* the store holds one pending message more than the cap
LimitStore == 1..(HardCap + 1)

InitLimit ==
    /\ now = 1
    /\ \E date \in [LimitStore -> 0..1] :
          messages = [i \in LimitStore |->
              NewMessage("pending", date[i], date[i], SenderOf(i), UsernameOf(i),
                         1, ContentOf(i))]
    /\ canceledUsers = {}
    /\ players = [p \in {} |-> 0]
    /\ claim = [c \in Callers |-> ClaimIdle]
    /\ ingest = [c \in Callers |-> IngestIdle]
    /\ upd = UpdIdle
    /\ cancel = CancelIdle
    /\ expiry = ExpiryIdle
    /\ requeue = RequeueOff
    /\ listing = ListingIdle

NextLimit ==
    \/ \E q \in Queries : GetPendingExpire("w1", q)
    \/ GetPendingFind("w1")
    \/ GetPendingMark("w1")
    \/ Tick

SpecLimit == InitLimit /\ [][NextLimit]_vars

\* a message eligible for a Claim at minute t
Eligible(doc, t) == doc.status = "pending" /\ doc.message_date >= t - ExpiryMinutes

C13_AtMostHardCap ==
    \A c \in Callers : Len(claim[c].found) <= HardCap

\* C14: oldest first: the selection of a getPending call is in non-decreasing
\* message_date order, and no eligible message it leaves out is older than a
\* message it takes.
C14_OldestFirst ==
    [][GetPendingFind("w1") =>
          LET s == claim'["w1"].found IN
          /\ \A a, b \in DOMAIN s : a < b =>
                messages[s[a]].message_date <= messages[s[b]].message_date
          /\ \A i \in DOMAIN messages :
                (Eligible(messages[i], now) /\ i \notin Range(s)) =>
                   \A a \in DOMAIN s :
                      messages[s[a]].message_date <= messages[i].message_date]_vars

\* a call has returned two messages of different dates and left out an
\* eligible one that is newer than the first returned
C14_Witness ==
    /\ claim["w1"].pc = "done"
    /\ Len(claim["w1"].result) = 2
    /\ messages[claim["w1"].result[1]].message_date
          < messages[claim["w1"].result[2]].message_date
    /\ \E i \in DOMAIN messages :
          /\ Eligible(messages[i], now)
          /\ messages[i].message_date > messages[claim["w1"].result[1]].message_date

(* ----------------------- reclaim after a requeue ----------------------- *)

\* One worker that keeps polling, the requeue job and the clock; the lease
\* timeout and the expiry age are equal, as the defaults (5 and 5) are.
NextReclaim ==
    \/ \E limit \in 1..MaxMsgs : GetPendingExpire("w1", QueryOf(limit))
    \/ GetPendingFind("w1")
    \/ GetPendingMark("w1")
    \/ RunOnce
    \/ Tick

\* the worker's calls run to their end and it calls again; the cron task and
\* the clock run
SpecReclaim ==
    /\ Init
    /\ [][NextReclaim]_vars
    /\ WF_vars(\E limit \in 1..MaxMsgs : GetPendingExpire("w1", QueryOf(limit)))
    /\ WF_vars(GetPendingFind("w1"))
    /\ WF_vars(GetPendingMark("w1"))
    /\ WF_vars(RunOnce)
    /\ WF_vars(Tick)

\* the requeue job has returned the message to pending
Requeued(i) ==
    /\ messages[i].status = "pending"
    /\ messages[i].reason = "requeued_from_processing_timeout"

\* a getPending call has selected the message and is about to mark it
Selected(i) ==
    \E c \in Callers : claim[c].pc = "mark" /\ i \in Range(claim[c].found)

\* C15: a message the requeue job returned to pending after its lease timed
\* out is claimed again: a later getPending call selects it.
C15_RequeuedReclaimed ==
    \A i \in MsgIds : Requeued(i) ~> Selected(i)

\* no getPending call ever selects a message the requeue job returned to
\* pending (C15 fails in every behaviour, not only in slow ones)
RequeuedNeverSelected ==
    [][\A i \in MsgIds :
          (GetPendingFind("w1") /\ i \in Range(claim'["w1"].found)) =>
             messages[i].reason # "requeued_from_processing_timeout"]_vars

(* ------------------- claims about the expiry reason -------------------- *)

\* the reason that goes with the state a message is in
ReasonOfState(doc) ==
    IF doc.status = "processing" THEN "expired_processing_timeout"
    ELSE IF doc.reason = "requeued_from_processing_timeout"
         THEN "expired_after_pending"
         ELSE "expired_pending_timeout"

\* C16: the reason an expiring write records is the reason of the state the
\* message is in immediately before that write, also when the requeue job
\* changed the message after the sweep read it.
C16_ReasonOfPriorState ==
    [][ExpiryWrite =>
          \A i \in DOMAIN messages :
             (messages[i].status \in {"pending", "processing"}
                /\ messages'[i].status = "expired") =>
                messages'[i].reason = ReasonOfState(messages[i])]_vars

(* ------------------ the requeue job and its sweeps in flight ----------- *)

\* The process boots on a store of pending and claimed messages; the requeue
\* job has not been started.
InitSweeps ==
    /\ now = 0
    /\ \E st \in [MsgIds -> {"pending", "processing"}] :
          messages = [i \in MsgIds |->
              NewMessage(st[i], 0, 0, SenderOf(i), UsernameOf(i), 1, ContentOf(i))]
    /\ canceledUsers = {}
    /\ players = [p \in {} |-> 0]
    /\ claim = [c \in Callers |-> ClaimIdle]
    /\ ingest = [c \in Callers |-> IngestIdle]
    /\ upd = UpdIdle
    /\ cancel = CancelIdle
    /\ expiry = ExpiryIdle
    /\ requeue = RequeueOff
    /\ listing = ListingIdle

\* The job is started; the store may take any time to answer a sweep.
NextSweeps ==
    \/ StartRequeueProcessingJob
    \/ RunOnceCall
    \/ \E k \in 1..(MaxTime + 1), ok \in BOOLEAN : RunOnceSettle(k, ok)
    \/ Tick

SpecSweeps == InitSweeps /\ [][NextSweeps]_vars

\* C17: at most one requeue sweep is in flight at any time.
C17_OneSweepInFlight == Len(requeue.inFlight) <= 1

(* ---------------------- sweeps that fail at the store ------------------ *)

\* The process boots on a store of claimed messages; no service is started.
InitFailures ==
    /\ now = 0
    /\ messages = [i \in MsgIds |->
          NewMessage("processing", 0, 0, SenderOf(i), UsernameOf(i), 1, ContentOf(i))]
    /\ canceledUsers = {}
    /\ players = [p \in {} |-> 0]
    /\ claim = [c \in Callers |-> ClaimIdle]
    /\ ingest = [c \in Callers |-> IngestIdle]
    /\ upd = UpdIdle
    /\ cancel = CancelIdle
    /\ expiry = ExpiryIdle
    /\ requeue = RequeueOff
    /\ listing = ListingIdle

\* Both services are started; their timers call the sweeps, and any awaited
\* store operation of a sweep may fail.  The store answers a requeue sweep,
\* with a result or an error, within the minute.
NextFailures ==
    \/ StartRequeueProcessingJob
    \/ RunOnceCall
    \/ \E ok \in BOOLEAN : RunOnceSettle(1, ok)
    \/ AutoExpiryStart
    \/ expiry.due /\ ExpiryStart
    \/ ExpiryFind
    \/ ExpiryWrite
    \/ ExpiryFail
    \/ requeue.inFlight = <<>> /\ Tick

SpecFailures == InitFailures /\ [][NextFailures]_vars

(* ---------------------- claims about failed sweeps --------------------- *)

\* C18: a store failure during a requeue sweep or an expiry sweep is caught
\* and logged; no step, a failure included, unschedules the cron task or the
\* interval timer; and a scheduled timer calls its sweep again at each tick
\* of its period.
C18_FailedSweepRetried ==
    /\ [][\A k \in DOMAIN requeue.inFlight :
             (RunOnceSettle(k, FALSE) /\ ~RunOnceSettle(k, TRUE)) =>
                requeue'.errorAt = now]_vars
    /\ [][ExpiryFail => expiry'.errorAt = now /\ expiry'.pc = "done"]_vars
    /\ [][(requeue.task => requeue'.task) /\ (expiry.timer => expiry'.timer)]_vars
    /\ [][Tick =>
             /\ (requeue.task /\ (now + 1) % RequeueIntervalMinutes = 0) => requeue'.due
             /\ (expiry.timer /\ (now + 1) % ExpiryIntervalMinutes = 0) => expiry'.due]_vars
    /\ [](requeue.due => requeue.task)
    /\ [](expiry.due => expiry.timer)

\* after a failed requeue sweep and a failed expiry sweep, later sweeps of
\* both services went through
C18_Witness ==
    /\ requeue.errorAt # NoError
    /\ expiry.errorAt # NoError
    /\ \E i \in DOMAIN messages :
          /\ messages[i].status = "expired"
          /\ messages[i].reason = "expired_after_pending"
          /\ messages[i].updatedAt > expiry.errorAt
          /\ expiry.errorAt > requeue.errorAt

(* ------------------ claims about the Cancel request -------------------- *)

\* C19: Cancel answers with the validation error exactly when the request
\* carries neither a user id nor a username; a request with a username alone
\* is accepted.
C19_RejectedOnlyWithoutIdentity ==
    [][\A u \in SenderIds \cup {NoUserId}, n \in Usernames \cup {None} :
          CancelCheck(u, n) =>
             ((cancel'.response = 400) <=> (u = NoUserId /\ n = None))]_vars

\* C20: when a Cancel has run its cascade, every listing whose sender is the
\* canceled user, by id or by username, is inactive; no step of the request
\* changes a listing or a message of another sender.
C20_ListingsDeactivated ==
    /\ [](cancel.pc = "done" /\ cancel.response = 201 =>
            \A p \in DOMAIN players :
               SenderIs(players[p], cancel.user_id, cancel.username) =>
                  ~players[p].active)
    /\ [][\A p \in DOMAIN players :
             ~SenderIs(players[p], cancel'.user_id, cancel'.username) =>
                players'[p] = players[p]]_vars
    /\ [][\A i \in DOMAIN messages :
             ~SenderIs(messages[i], cancel'.user_id, cancel'.username) =>
                messages'[i] = messages[i]]_vars

\* a cascade has deactivated a listing matched by username alone and left a
\* pending message of another sender as it was
C20_Witness ==
    /\ cancel.pc = "done"
    /\ cancel.response = 201
    /\ \E p \in DOMAIN players :
          /\ players[p].sender # cancel.user_id
          /\ players[p].username = cancel.username
          /\ ~players[p].active
    /\ \E i \in DOMAIN messages :
          /\ ~SenderIs(messages[i], cancel.user_id, cancel.username)
          /\ messages[i].status = "pending"

(* ---------------- ingestion of bodies that carry a status -------------- *)

\* One client ingests bodies that may carry an ai_status field; one sender
\* has a cancellation record.
NextIngestStatus ==
    \/ \E b \in StatusBodies(now) : CreateSpamCheck("w1", b)
    \/ CreateCancelCheck("w1")
    \/ CreateSave("w1")
    \/ Tick

SpecIngestStatus == InitIngestCanceled /\ [][NextIngestStatus]_vars

\* C21: create stores every message as pending or, for a canceled sender, as
\* canceled_by_user, whatever the request body carries.
C21_InitialStatus ==
    [][CreateSave("w1") =>
          \A i \in DOMAIN messages' \ DOMAIN messages :
             messages'[i].status \in {"pending", "canceled_by_user"}]_vars

(* ------------------- the two sweeps and their switches ----------------- *)

\* The process boots on a store of pending and claimed messages; neither
\* service is started.
InitToggles ==
    /\ now = 0
    /\ \E st \in [MsgIds -> {"pending", "processing"}], date \in [MsgIds -> 0..1] :
          messages = [i \in MsgIds |->
              NewMessage(st[i], date[i], date[i], SenderOf(i), UsernameOf(i),
                         1, ContentOf(i))]
    /\ canceledUsers = {}
    /\ players = [p \in {} |-> 0]
    /\ claim = [c \in Callers |-> ClaimIdle]
    /\ ingest = [c \in Callers |-> IngestIdle]
    /\ upd = UpdIdle
    /\ cancel = CancelIdle
    /\ expiry = ExpiryIdle
    /\ requeue = RequeueOff
    /\ listing = ListingIdle

\* Each service is started, stopped and switched on its own.
NextToggles ==
    \/ StartRequeueProcessingJob
    \/ StopRequeueProcessingJob
    \/ RunOnce
    \/ AutoExpiryStart
    \/ AutoExpiryStop
    \/ \E value \in BOOLEAN : SetEnabled(value)
    \/ expiry.due /\ ExpiryStart
    \/ ExpiryFind
    \/ ExpiryWrite
    \/ Tick

SpecToggles == InitToggles /\ [][NextToggles]_vars

ReportStatuses == AiStatuses \cup {"unknown"}

\* Reports arrive for a store of pending and claimed messages, with any route
\* parameter and any status value.
NextReport ==
    \/ \E param \in Params, st \in ReportStatuses : UpdateByMessageId(param, st)
    \/ Tick

SpecReport == InitSweeps /\ [][NextReport]_vars

\* a route parameter that is not a decimal number
Malformed(param) ==
    param = <<>> \/ \E k \in DOMAIN param : param[k] \notin {"0", "1", "2", "3"}

\* C23: a request with a malformed message id, or with a status that is not
\* an outcome (completed, failed), changes no message.
C23_InvalidReportRejected ==
    [][\A param \in Params, st \in ReportStatuses :
          (UpdateByMessageId(param, st) /\ (Malformed(param) \/ st \notin Outcomes)) =>
             messages' = messages]_vars

\* a request with a malformed message id, or with a status outside the
\* schema's enum, changes no message and is answered with an error
InvalidRequestRejected ==
    [][\A param \in Params, st \in ReportStatuses :
          (UpdateByMessageId(param, st) /\ (Malformed(param) \/ st = "unknown")) =>
             messages' = messages /\ upd'.response \in {400, 500}]_vars

(* --------------- claims about writes that cross each other ------------- *)

\* C24: the writing step of an expiry sweep leaves a message that a worker's
\* report or the cascade has meanwhile moved to completed, failed or
\* canceled_by_user in that status.
C24_ExpiryKeepsNewerStatus ==
    [][ExpiryWrite =>
          \A i \in DOMAIN messages :
             messages[i].status \in {"completed", "failed", "canceled_by_user"} =>
                messages'[i].status = messages[i].status]_vars

\* C25: a requeue sweep changes exactly the messages that are processing with
\* updatedAt older than now - timeout when it writes: each becomes pending
\* with reason requeued_from_processing_timeout; every other message is as it
\* was.
C25_RequeueExactly ==
    [][RunOnce =>
          \A i \in DOMAIN messages :
             IF messages[i].status = "processing"
                   /\ messages[i].updatedAt < now - TimeoutMinutes
             THEN messages'[i] =
                     [messages[i] EXCEPT !.status = "pending",
                                         !.reason = "requeued_from_processing_timeout",
                                         !.updatedAt = now]
             ELSE messages'[i] = messages[i]]_vars

\* a sweep has just requeued one message and left a message within its lease
\* in processing
C25_Witness ==
    /\ requeue.swept
    /\ \E i, j \in DOMAIN messages :
          /\ messages[i].status = "pending"
          /\ messages[i].reason = "requeued_from_processing_timeout"
          /\ messages[i].updatedAt = now
          /\ messages[j].status = "processing"
          /\ messages[j].updatedAt < now

\* C26: no step of a getPending call sets a message to expired: the only
\* statuses a call changes are those of the messages it returns.
C26_ClaimNeverExpires ==
    [][(\E c \in Callers : claim'[c] # claim[c]) =>
          \A i \in DOMAIN messages :
             messages'[i].status = "expired" => messages[i].status = "expired"]_vars

(* ------------------- claims about repeated cancellation ---------------- *)

\* C27: every answered Cancel for a recorded user, the first or a repeated
\* one, has run both cascade updates: no message matched by the request is
\* pending and no listing matched by it is active.
C27_RerunCompletesCascade ==
    (cancel.pc = "done" /\ cancel.response \in {201, 409}) =>
       /\ \A i \in DOMAIN messages :
             ~CancelMessageFilter(messages[i], cancel.user_id, cancel.username)
       /\ \A p \in DOMAIN players :
             UserCondition(players[p], cancel.user_id, cancel.username) =>
                ~players[p].active

(* -------------------- claims about concurrent ingestion ---------------- *)

\* two stored messages of one sender, group and content
SameTuple(i, j) ==
    /\ i # j
    /\ messages[i].sender = messages[j].sender
    /\ messages[i].group = messages[j].group
    /\ messages[i].content = messages[j].content

\* C28: the duplicate guard is check-then-insert: two messages of one tuple
\* inside one spam window are stored only by calls that overlap, the spam
\* validation of each having run (at its message_date) no later than the
\* save of the other; and such a pair is reachable (C28_Witness).
C28_DuplicatesFromOverlapOnly ==
    \A i, j \in DOMAIN messages :
       (/\ SameTuple(i, j)
        /\ messages[j].message_date >= messages[i].message_date - SpamWindowMinutes
        /\ messages[j].message_date <= messages[i].message_date + SpamWindowMinutes) =>
          messages[j].message_date <= messages[i].updatedAt

\* both concurrent calls were answered 201 and their two messages of one
\* tuple lie inside one spam window
C28_Witness ==
    /\ \A c \in Callers : ingest[c].pc = "done" /\ ingest[c].response = 201
    /\ \E i, j \in DOMAIN messages :
          /\ SameTuple(i, j)
          /\ messages[j].message_date >= messages[i].message_date
          /\ messages[j].message_date - messages[i].message_date <= SpamWindowMinutes

(* --------------- claims about requeued messages that expire ------------ *)

\* a message the requeue job returned to pending, older than the cutoff
RequeuedStale(doc, cutoff) ==
    /\ doc.status = "pending"
    /\ doc.reason = "requeued_from_processing_timeout"
    /\ doc.message_date < cutoff

\* C29: a sweep of the expiry service that reads a message the requeue job
\* has returned to pending, with message_date before the cutoff, reads it in
\* a batch (a full batch leaves it to the next one) and its write sets it to
\* expired with reason expired_after_pending.
C29_RequeuedExpiresAfterPending ==
    [][/\ ExpiryFind =>
             \A i \in DOMAIN messages :
                RequeuedStale(messages[i], expiry.expiryTime) =>
                   \/ Len(expiry'.batch) = BatchSize
                   \/ \E a \in DOMAIN expiry'.batch :
                         /\ expiry'.batch[a].id = i
                         /\ expiry'.batch[a].status = "pending"
                         /\ expiry'.batch[a].reason = "requeued_from_processing_timeout"
       /\ ExpiryWrite =>
             \A a \in DOMAIN expiry.batch :
                (/\ expiry.batch[a].status = "pending"
                 /\ expiry.batch[a].reason = "requeued_from_processing_timeout") =>
                   /\ messages'[expiry.batch[a].id].status = "expired"
                   /\ messages'[expiry.batch[a].id].reason = "expired_after_pending"]_vars

\* the requeue job returned a claimed message to pending and the sweep that
\* started afterwards has just expired it
C29_Witness ==
    /\ requeue.swept
    /\ expiry.pc \in {"find", "done"}
    /\ \E i \in expiry.staleAtStart :
          /\ messages[i].status = "expired"
          /\ messages[i].reason = "expired_after_pending"
          /\ messages[i].updatedAt = now
          /\ messages[i].message_date < expiry.expiryTime

(* ------------- cancellation racing ingestion and a worker -------------- *)

\* One pending message of sender 1 is stored; a client ingests, a worker
\* polls and a cancellation request arrives, in any order.
InitCancelRace ==
    /\ now = 0
    /\ messages = [i \in {1} |-> NewMessage("pending", 0, 0, 1, "a", 1, "x")]
    /\ canceledUsers = {}
    /\ players = [p \in {} |-> 0]
    /\ claim = [c \in Callers |-> ClaimIdle]
    /\ ingest = [c \in Callers |-> IngestIdle]
    /\ upd = UpdIdle
    /\ cancel = CancelIdle
    /\ expiry = ExpiryIdle
    /\ requeue = RequeueOff
    /\ listing = ListingIdle

NextCancelRace ==
    \/ \E u \in SenderIds, n \in Usernames \cup {None} : CancelCheck(u, n)
    \/ CancelSave
    \/ CancelMessages
    \/ CancelPlayers
    \/ \E b \in Bodies(now) : CreateSpamCheck("w1", b)
    \/ CreateCancelCheck("w1")
    \/ CreateSave("w1")
    \/ GetPendingExpire("w2", QueryOf(MaxMsgs))
    \/ GetPendingFind("w2")
    \/ GetPendingMark("w2")

SpecCancelRace == InitCancelRace /\ [][NextCancelRace]_vars

\* C30: once a Cancel has been answered 201, no step stores a message of that
\* user as pending or processing, nor moves one into pending or processing:
\* not the save of an ingestion whose cancellation lookup ran before the
\* record was saved, nor the mark of a getPending whose find ran before the
\* cascade.
C30_CanceledStaysOutOfQueue ==
    [][(cancel.pc = "done" /\ cancel.response = 201) =>
          \A i \in DOMAIN messages' :
             (/\ UserCondition(messages'[i], cancel.user_id, cancel.username)
              /\ messages'[i].status \in {"pending", "processing"}) =>
                /\ i \in DOMAIN messages
                /\ messages[i].status = messages'[i].status]_vars

(* ------------------ claims about the reason of expiry ------------------ *)

\* C31: every message with status expired carries one of the three expiry
\* reasons, whichever code path expired it.
C31_ExpiredHasReason ==
    \A i \in DOMAIN messages :
       messages[i].status = "expired" =>
          messages[i].reason \in {"expired_pending_timeout",
                                  "expired_processing_timeout",
                                  "expired_after_pending"}

(* ----------------------- claims about the lease ------------------------ *)

\* C32: the lease is measured from the claim: the marking update of
\* getPending stamps the returned messages with the time of the claim, no
\* step moves a stamp back, and a sweep of the requeue job returns a message
\* to pending only when more than the timeout has passed since its stamp.
C32_LeaseFromClaim ==
    [][/\ GetPendingMark("w1") =>
             \A k \in DOMAIN claim'["w1"].result :
                LET i == claim'["w1"].result[k]
                IN /\ messages'[i].status = "processing"
                   /\ messages'[i].updatedAt = now
       /\ \A i \in DOMAIN messages : messages'[i].updatedAt >= messages[i].updatedAt
       /\ RunOnce =>
             \A i \in DOMAIN messages :
                (messages[i].status = "processing" /\ messages'[i].status = "pending") =>
                   now > messages[i].updatedAt + TimeoutMinutes]_vars

\* a sweep has run inside the lease of a claimed message and left it claimed
C32_Witness ==
    /\ requeue.swept
    /\ ~requeue.due
    /\ \E i \in Returned("w1") :
          /\ messages[i].status = "processing"
          /\ now > messages[i].updatedAt
          /\ now <= messages[i].updatedAt + TimeoutMinutes

(* ------------------- a worker beside a disabled service ---------------- *)

\* The expiry service is started, switched and run while a worker polls.
NextDisabled ==
    \/ AutoExpiryStart
    \/ \E value \in BOOLEAN : SetEnabled(value)
    \/ expiry.due /\ ExpiryStart
    \/ ExpiryFind
    \/ ExpiryWrite
    \/ GetPendingExpire("w1", QueryOf(MaxMsgs))
    \/ GetPendingFind("w1")
    \/ GetPendingMark("w1")
    \/ Tick

SpecDisabled == InitToggles /\ [][NextDisabled]_vars

\* C33: while auto-expiry is disabled (setEnabled(false) was called, or the
\* configuration disables it), no step sets a message to expired, and the
\* find of getPending selects every pending message whatever its
\* message_date.
C33_DisabledExpiresNothing ==
    [][~expiry.enabled =>
          /\ \A i \in DOMAIN messages :
                messages'[i].status = "expired" => messages[i].status = "expired"
          /\ GetPendingFind("w1") =>
                \A i \in DOMAIN messages :
                   messages[i].status = "pending" =>
                      \E k \in DOMAIN claim'["w1"].found : claim'["w1"].found[k] = i]_vars

(* ------------------- the batch loop of the expiry sweep ---------------- *)

\* The awaited find and bulkWrite of a running sweep are answered; the
\* requeue job and the clock run beside it as they will.
SpecSweepEnds ==
    /\ InitExpiry
    /\ [][NextExpiry]_vars
    /\ WF_vars(ExpiryFind)
    /\ WF_vars(ExpiryWrite)

InitListing ==
    /\ now = 0
    /\ messages = [i \in {1} |-> NewMessage("pending", 0, 0, 1, "a", 1, "x")]
    /\ canceledUsers = {}
    /\ players = [p \in {} |-> 0]
    /\ claim = [c \in Callers |-> ClaimIdle]
    /\ ingest = [c \in Callers |-> IngestIdle]
    /\ upd = UpdIdle
    /\ cancel = CancelIdle
    /\ expiry = ExpiryIdle
    /\ requeue = RequeueOff
    /\ listing = ListingIdle

NextListing ==
    \/ \E s \in SenderIds : PlayerSpamCheck(s, UsernameOf(s))
    \/ PlayerCancelCheck
    \/ PlayerDeactivate
    \/ PlayerSave
    \/ \E u \in SenderIds, n \in Usernames \cup {None} : CancelCheck(u, n)
    \/ CancelSave
    \/ CancelMessages
    \/ CancelPlayers
    \/ Tick

SpecListing == InitListing /\ [][NextListing]_vars

\* C35: once a listing creation and a Cancel have both completed, no sender
\* with a cancellation record has an active listing, however the two
\* interleaved.
C35_CanceledHasNoActiveListing ==
    (listing.pc = "done" /\ cancel.pc = "done") =>
       \A p \in DOMAIN players :
          players[p].active =>
             \A r \in canceledUsers : r.user_id # players[p].sender

(* ------------------ claims about starting and stopping ----------------- *)

\* C36: for any sequence of start, stop and setEnabled calls on the expiry
\* service, at most one interval timer is set and not cleared, isRunning is
\* true exactly when intervalId is set, and start changes nothing while the
\* service is disabled or already running.
C36_OneTimer ==
    /\ [](/\ expiry.timers <= 1
          /\ expiry.isRunning <=> expiry.timer
          /\ expiry.timer <=> expiry.timers = 1)
    /\ [][(AutoExpiryStart /\ (~expiry.enabled \/ expiry.isRunning)) =>
             UNCHANGED expiry]_vars

\* the service was started and ran a sweep, and setEnabled(false) has stopped
\* it: no timer is left
C36_Witness ==
    /\ expiry.pc = "done"
    /\ ~expiry.enabled
    /\ ~expiry.isRunning
    /\ expiry.timers = 0

\* C37: for any sequence of startRequeueProcessingJob and
\* stopRequeueProcessingJob calls, at most one cron task is scheduled and not
\* stopped; a start while a task exists schedules nothing and owes no sweep;
\* after stop no task remains, and only a start schedules one again.
C37_OneCronTask ==
    /\ [](/\ requeue.tasks <= 1
          /\ requeue.task <=> requeue.tasks = 1)
    /\ [][(StartRequeueProcessingJob /\ requeue.task) =>
             UNCHANGED <<requeue, messages>>]_vars
    /\ [][StopRequeueProcessingJob => (~requeue'.task /\ requeue'.tasks = 0)]_vars
    /\ [][(~requeue.task /\ requeue'.task) =>
             (StartRequeueProcessingJob /\ requeue'.due)]_vars

\* the job was started, ran a sweep and was stopped: no task is left
C37_Witness ==
    /\ requeue.swept
    /\ ~requeue.task
    /\ requeue.tasks = 0

====
